---- MODULE Spec2Model ----
(***************************************************************************)
(* The documentation search engine of mcp-rust-builder                     *)
(* (src/tools/search_docs.rs) and the server start-up and search handler   *)
(* that drive it (src/main.rs).                                            *)
(*                                                                         *)
(* Numbers.  The program computes with f64.  Here a term frequency k/n is  *)
(* the integer k * TfOne / n (TfOne stands for 1.0 and is divisible by     *)
(* every document length the model builds), and ln(x) is the integer       *)
(* LnTable[x] = round(1000 * ln x); a score is a sum of products of the    *)
(* two.  Text is a sequence of one-character strings; a term is such a     *)
(* sequence too.                                                           *)
(***************************************************************************)
EXTENDS Integers, Sequences, FiniteSets, TLC

\* ------------------------------------------------------------------ bounds

\* Longest query text a client sends.
MaxQueryLen == 5

\* Largest number of documents of an index adopted from the cache file.
MaxCachedDocs == 16

\* Largest number of requests waiting on the server's input.
MaxInbox == 1

\* Largest number of entries of the std directory of a generated corpus.
MaxEntries == 3

\* ------------------------------------------------------- program constants

\* results.truncate(10)
TopN == 10

\* if trimmed.len() > 200 { format!("{}...", &trimmed[..200]) }
DescLimit == 200

\* .filter(|s| !s.is_empty() && s.len() > 1)
MinTokenLen == 1

\* BufWriter::new(file): the writer flushes a buffer of fixed size at a time;
\* the first buffer of a serialized index holds the fingerprint, the number
\* of documents and the first HeadDocs documents.
HeadDocs == 1

\* Option<T>: None is the empty sequence, Some(x) the sequence of x alone.
None == <<>>

Some(x) == <<x>>

Unwrap(o) == o[1]

\* ----------------------------------------------------------------- numbers

\* 1.0 as a term frequency: k/n is k * TfOne \div n, exact for n in 1..6.
TfOne == 2 * 2 * 3 * 5

\* round(1000 * ln n) for n = 1..16.
LnTable ==
    << 0, 693, 1099, 1386, 1609, 1792, 1946, 2079,
       2197, 2303, 2398, 2485, 2565, 2639, 2708, 2773 >>

\* (total_docs / count as f64).ln()
Ln(total, count) == LnTable[total] - LnTable[count]

\* The f64 values that are not finite: f64::INFINITY, f64::NEG_INFINITY and
\* f64::NAN stand beyond every finite value the model computes.
Infinity == 1000 * 1000

NegInfinity == 0 - Infinity

NaN == Infinity + 1

IsNaN(x) == x = NaN

IsFinite(x) == NegInfinity < x /\ x < Infinity

\* The sign of an f64 that is not NaN: -1, 0 or 1.
Signum(x) == IF x > 0 THEN 1 ELSE IF x < 0 THEN 0 - 1 ELSE 0

\* A finite result, or the infinity it overflows to.
Rounded(x) == IF x >= Infinity THEN Infinity ELSE IF x <= NegInfinity THEN NegInfinity ELSE x

\* f64 multiplication: NaN spreads, and infinity times zero is NaN.
FMul(a, b) ==
    IF IsNaN(a) \/ IsNaN(b) THEN NaN
    ELSE IF IsFinite(a) /\ IsFinite(b) THEN Rounded(a * b)
    ELSE IF a = 0 \/ b = 0 THEN NaN
    ELSE IF Signum(a) = Signum(b) THEN Infinity ELSE NegInfinity

\* f64 addition: NaN spreads, and infinity minus infinity is NaN.
FAdd(a, b) ==
    IF IsNaN(a) \/ IsNaN(b) THEN NaN
    ELSE IF IsFinite(a) /\ IsFinite(b) THEN Rounded(a + b)
    ELSE IF ~IsFinite(a) /\ ~IsFinite(b) THEN (IF a = b THEN a ELSE NaN)
    ELSE IF IsFinite(a) THEN b ELSE a

\* The f64 comparison a > b: false when either is NaN.
FGreater(a, b) == ~IsNaN(a) /\ ~IsNaN(b) /\ a > b

\* -------------------------------------------------------------------- text

\* The characters of the model: two lower-case letters, an upper-case
\* letter, a space and a hyphen.
Letters == {"a", "b", "B"}

Whitespace == {" "}

Alphabet == Letters \cup Whitespace \cup {"-"}

\* char::is_alphanumeric
IsAlphanumeric(c) == c \in Letters

\* str::to_lowercase, one character
LowerChar(c) == IF c = "B" THEN "b" ELSE c

\* str::to_lowercase
ToLowercase(text) == [i \in 1..Len(text) |-> LowerChar(text[i])]

\* str::len of a piece of text: its length in bytes (every character of the
\* model is ASCII).
ByteLen(text) == Len(text)

\* str::split(|c| !c.is_alphanumeric()): the pieces between separators, the
\* empty ones included.
RECURSIVE SplitFrom(_, _, _)
SplitFrom(text, i, cur) ==
    IF i > Len(text) THEN <<cur>>
    ELSE IF IsAlphanumeric(text[i]) THEN SplitFrom(text, i + 1, Append(cur, text[i]))
    ELSE <<cur>> \o SplitFrom(text, i + 1, <<>>)

Split(text) == SplitFrom(text, 1, <<>>)

\* A filter that drops only the empty pieces.
KeepNonEmpty(s) == s # <<>>

\* A filter that drops the pieces of two bytes too.
KeepLongToken(s) == s # <<>> /\ ByteLen(s) > MinTokenLen + 1

\* The filter of tokenize.
KeepToken(s) == s # <<>> /\ ByteLen(s) > MinTokenLen

\* RustDocsSearcher::tokenize
Tokenize(text) == SelectSeq(Split(ToLowercase(text)), KeepToken)

\* str::trim
RECURSIVE TrimStart(_)
TrimStart(text) ==
    IF text # <<>> /\ Head(text) \in Whitespace THEN TrimStart(Tail(text)) ELSE text

RECURSIVE TrimEnd(_)
TrimEnd(text) ==
    IF text # <<>> /\ text[Len(text)] \in Whitespace
    THEN TrimEnd(SubSeq(text, 1, Len(text) - 1)) ELSE text

Trim(text) == TrimEnd(TrimStart(text))

\* ------------------------------------------------------------------ search

\* doc.term_frequencies.get(term).unwrap_or(&0.0)
TfOf(doc, term) ==
    IF term \in DOMAIN doc.term_frequencies THEN doc.term_frequencies[term] ELSE 0

\* self.inverse_document_frequency.get(term).unwrap_or(&0.0)
IdfOf(idf, term) == IF term \in DOMAIN idf THEN idf[term] ELSE 0

\* The inner loop of search: score += tf * idf for each query term in turn.
RECURSIVE ScoreFrom(_, _, _, _, _)
ScoreFrom(doc, idf, query_terms, i, score) ==
    IF i > Len(query_terms) THEN score
    ELSE ScoreFrom(doc, idf, query_terms, i + 1,
                   FAdd(score, FMul(TfOf(doc, query_terms[i]), IdfOf(idf, query_terms[i]))))

\* The terms of a sequence, each once, in the order of their first occurrence.
RECURSIVE Dedup(_, _)
Dedup(terms, seen) ==
    IF terms = <<>> THEN <<>>
    ELSE IF Head(terms) \in seen THEN Dedup(Tail(terms), seen)
    ELSE <<Head(terms)>> \o Dedup(Tail(terms), seen \cup {Head(terms)})

\* A score that counts a repeated query term once.
ScoreOncePerTerm(doc, idf, query_terms) ==
    ScoreFrom(doc, idf, Dedup(query_terms, {}), 1, 0)

Score(doc, idf, query_terms) == ScoreFrom(doc, idf, query_terms, 1, 0)

\* A filter that lets a score of zero pass.
MatchesZero(score) == score >= 0

\* A filter written !(score <= 0.0), which NaN passes.
MatchesUnlessNotPositive(score) == IsNaN(score) \/ score > 0

\* if score > 0.0 { results.push(..) }
Matches(score) == FGreater(score, 0)

DocSearchResult(doc, score) ==
    [title |-> doc.title, description |-> doc.description, path |-> doc.path,
     relevance_score |-> score]

\* The outer loop of search: the matching documents in index order.
RECURSIVE Collect(_, _, _, _)
Collect(documents, idf, query_terms, i) ==
    IF i > Len(documents) THEN <<>>
    ELSE LET score == Score(documents[i], idf, query_terms)
             rest == Collect(documents, idf, query_terms, i + 1)
         IN IF Matches(score) THEN <<DocSearchResult(documents[i], score)>> \o rest
            ELSE rest

\* A comparator that sorts by ascending score.
BeforeAscending(a, b) == a.relevance_score < b.relevance_score

\* The comparator of results.sort_by: b.relevance_score.partial_cmp(&a.relevance_score)
\* is Less, that is, a goes before b.
Before(a, b) == FGreater(a.relevance_score, b.relevance_score)

\* An unstable sort: r goes in front of the elements that compare equal to it.
RECURSIVE InsertSortedUnstable(_, _)
InsertSortedUnstable(sorted, r) ==
    IF sorted = <<>> THEN <<r>>
    ELSE IF ~Before(Head(sorted), r) THEN <<r>> \o sorted
    ELSE <<Head(sorted)>> \o InsertSortedUnstable(Tail(sorted), r)

\* slice::sort_by is a stable sort: r goes behind every element that is not
\* strictly after it.
RECURSIVE InsertSorted(_, _)
InsertSorted(sorted, r) ==
    IF sorted = <<>> THEN <<r>>
    ELSE IF Before(r, Head(sorted)) THEN <<r>> \o sorted
    ELSE <<Head(sorted)>> \o InsertSorted(Tail(sorted), r)

RECURSIVE SortFrom(_, _, _)
SortFrom(results, i, sorted) ==
    IF i > Len(results) THEN sorted
    ELSE SortFrom(results, i + 1, InsertSorted(sorted, results[i]))

SortBy(results) == SortFrom(results, 1, <<>>)

\* A truncate that keeps one element too many.
TruncateOneMore(results, n) ==
    IF Len(results) > n + 1 THEN SubSeq(results, 1, n + 1) ELSE results

\* Vec::truncate
Truncate(results, n) == IF Len(results) > n THEN SubSeq(results, 1, n) ELSE results

\* The comparator of sort_by unwraps partial_cmp, which is None when a score
\* is NaN; a sort of two elements or more compares every element.
SortPanics(results) ==
    Len(results) >= 2 /\ \E k \in 1..Len(results) : IsNaN(results[k].relevance_score)

\* search panics: its sort does.
SearchPanics(documents, idf, query) ==
    LET query_terms == Tokenize(query)
    IN query_terms # <<>> /\ SortPanics(Collect(documents, idf, query_terms, 1))

\* RustDocsSearcher::search
Search(documents, idf, query) ==
    LET query_terms == Tokenize(query)
    IN IF query_terms = <<>> THEN <<>>
       ELSE Truncate(SortBy(Collect(documents, idf, query_terms, 1)), TopN)

\* ------------------------------------------------------------- file system

\* A file of the corpus: its name, its stem and extension (Path::file_stem,
\* Path::extension), whether fs::read_to_string succeeds on it, and what the
\* three selectors of process_html_file find in it (None: no such element).
File(name, stem, ext, readable, heading, docblock, main) ==
    [kind |-> "file", name |-> name, stem |-> stem, ext |-> ext, readable |-> readable,
     heading |-> heading, docblock |-> docblock, main |-> main]

\* A directory: whether fs::read_dir succeeds on it, and its entries in the
\* order read_dir yields them.
Dir(name, readable, entries) ==
    [kind |-> "dir", name |-> name, readable |-> readable, entries |-> entries]

\* An entry on which the directory iterator itself returns an error (entry?).
BadEntry == [kind |-> "err", name |-> "?"]

\* A walk that calls read_dir without asking whether the path is a directory.
IsDirUnchecked(node) == TRUE

\* Path::is_dir of an Option of a node
IsDir(node) == node # None /\ Unwrap(node).kind = "dir"

\* fs::read_dir(dir) returns an iterator: dir is a directory that can be listed.
ReadDirOk(dir) == dir # None /\ Unwrap(dir).kind = "dir" /\ Unwrap(dir).readable

WalkOk(files) == [ok |-> TRUE, files |-> files]

WalkErr == [ok |-> FALSE, files |-> <<>>]

\* RustDocsSearcher::find_html_files: dir is the Option of the node at path;
\* files is the accumulator. An error of read_dir, of an entry or of a
\* nested call ends the walk with that error.
RECURSIVE find_html_files(_, _, _)
RECURSIVE WalkEntries(_, _, _, _)
find_html_files(dir, path, files) ==
    IF ~IsDir(dir) THEN WalkOk(files)
    ELSE IF ~ReadDirOk(dir) THEN WalkErr
    ELSE WalkEntries(Unwrap(dir).entries, 1, path, files)

WalkEntries(entries, i, path, files) ==
    IF i > Len(entries) THEN WalkOk(files)
    ELSE LET e == entries[i]
         IN IF e.kind = "err" THEN WalkErr
            ELSE IF e.kind = "dir"
            THEN LET r == find_html_files(Some(e), Append(path, e.name), files)
                 IN IF r.ok THEN WalkEntries(entries, i + 1, path, r.files) ELSE r
            ELSE IF e.ext = Some("html")
            THEN WalkEntries(entries, i + 1, path,
                             Append(files, [path |-> Append(path, e.name), file |-> e]))
            ELSE WalkEntries(entries, i + 1, path, files)

\* A walk that starts at docs_path itself: it meets the entries beside std
\* as it meets those of std.
WholeRoot(corpus) ==
    IF corpus.std # None /\ Unwrap(corpus.std).kind = "dir"
    THEN Some([Unwrap(corpus.std) EXCEPT !.entries = @ \o corpus.rest])
    ELSE IF corpus.rest # <<>> THEN Some([kind |-> "dir", name |-> "std", readable |-> TRUE,
                                          entries |-> corpus.rest])
    ELSE corpus.std

\* The node docs_path.join("std") of a corpus: None when there is none.
StdOf(corpus) == corpus.std

\* --------------------------------------------------------------- indexing

\* The number of occurrences of term in terms.
RECURSIVE CountIn(_, _)
CountIn(term, terms) ==
    IF terms = <<>> THEN 0
    ELSE (IF Head(terms) = term THEN 1 ELSE 0) + CountIn(term, Tail(terms))

TermSet(terms) == {terms[i] : i \in 1..Len(terms)}

\* Counts divided by the number of different terms, not by term_count.
TermFrequenciesPerDistinct(terms) ==
    [t \in TermSet(terms) |-> (CountIn(t, terms) * TfOne) \div Cardinality(TermSet(terms))]

\* The two loops at the end of process_html_file: count each term, then
\* divide each count by term_count.
TermFrequencies(terms) ==
    [t \in TermSet(terms) |-> (CountIn(t, terms) * TfOne) \div Len(terms)]

\* The description of process_html_file: the first docblock paragraph,
\* trimmed, cut to DescLimit bytes with "..." appended when longer.
Description(docblock) ==
    IF docblock = None THEN <<>>
    ELSE LET trimmed == Trim(Unwrap(docblock))
         IN IF ByteLen(trimmed) > DescLimit
            THEN SubSeq(trimmed, 1, DescLimit) \o <<".", ".", ".">>
            ELSE trimmed

\* The title of process_html_file: the first heading, trimmed, or the file stem.
Title(f) == IF f.heading # None THEN Trim(Unwrap(f.heading)) ELSE f.stem

\* format!("{} {} {}", title, description, main_content)
FullText(f) ==
    Title(f) \o <<" ">> \o Description(f.docblock) \o <<" ">>
        \o (IF f.main = None THEN <<>> ELSE Unwrap(f.main))

\* RustDocsSearcher::process_html_file: None stands for both Err (the file
\* cannot be read) and Ok(None) (the file has no term), which build_index
\* treats alike.
process_html_file(found) ==
    LET f == found.file
        terms == Tokenize(FullText(f))
    IN IF ~f.readable THEN None
       ELSE IF Len(terms) = 0 THEN None
       ELSE Some([path |-> found.path, title |-> Title(f),
                  description |-> Description(f.docblock),
                  term_frequencies |-> TermFrequencies(terms)])

\* for term in indexed_doc.term_frequencies.keys() { *doc_counts.entry(term).or_insert(0) += 1 }
CountDoc(doc_counts, doc) ==
    [t \in DOMAIN doc_counts \cup DOMAIN doc.term_frequencies |->
        (IF t \in DOMAIN doc_counts THEN doc_counts[t] ELSE 0)
        + (IF t \in DOMAIN doc.term_frequencies THEN 1 ELSE 0)]

\* A loop that keeps no entry for a term whose idf is 0.
IdfOfCountsNonZero(total_docs, doc_counts) ==
    [t \in {u \in DOMAIN doc_counts : Ln(total_docs, doc_counts[u]) # 0} |->
        Ln(total_docs, doc_counts[t])]

\* The last loop of build_index: idf = ln(total_docs / count) for each counted term.
IdfOfCounts(total_docs, doc_counts) ==
    [t \in DOMAIN doc_counts |-> Ln(total_docs, doc_counts[t])]

\* ------------------------------------------------------------------- state

\* The server processes, and the documentation roots RustPaths::discover
\* can find.
Procs == {"p1", "p2"}

Roots == {"R1", "R2"}

\* RustDocsSearcher::get_path_hash: DefaultHasher over the path.
get_path_hash(docs_path) == IF docs_path = "R1" THEN 11 ELSE 22

VARIABLES
    fs,        \* fs[r]: the directory tree under root r
    cache,     \* the file temp_dir()/mcp_rust_docs_v1.bin
    proc,      \* proc[p]: where process p is in main, and the locals of build_index
    searcher,  \* searcher[p]: the Option<RustDocsSearcher> of process p
    inbox,     \* inbox[p]: the requests sent to p and not yet handled, oldest first
    reply      \* reply[p]: the response p wrote last, until the next request is sent

vars == <<fs, cache, proc, searcher, inbox, reply>>

\* The searcher of p, when it has one.
Engine(p) == Unwrap(searcher[p])

\* Self { docs_path, documents: Vec::new(), inverse_document_frequency: HashMap::new() }
NewSearcher(docs_path) ==
    [docs_path |-> docs_path, documents |-> <<>>, inverse_document_frequency |-> <<>>]

\* The state of a process at the start of main.  Three fields record what the
\* process has done to the cache file: saves counts its calls of
\* save_to_cache, wrote is the content it wrote, loaded the content it adopted.
StartOf(docs_path) ==
    [pc |-> "start", docs_path |-> docs_path, outcome |-> "none",
     all_html_files |-> <<>>, total_docs |-> 0, processed |-> 0, doc_counts |-> <<>>,
     saves |-> 0, wrote |-> None, loaded |-> None]

\* A process that is not started.
Off == [StartOf(None) EXCEPT !.pc = "off"]

\* The cache file: missing, not openable, not deserializable, or a CacheContainer.
CacheMissing == [kind |-> "missing"]

CacheUnreadable == [kind |-> "unreadable"]

CacheGarbage == [kind |-> "garbage"]

CacheContainer(docs_path_hash, documents, idf) ==
    [kind |-> "container", docs_path_hash |-> docs_path_hash,
     documents |-> documents, idf |-> idf]

\* bincode writes a HashMap as its entries, one (key, value) pair each, and
\* reads it back by inserting the pairs into a new map.
MapEntries(map) == {<<k, map[k]>> : k \in DOMAIN map}

MapOfEntries(entries) ==
    [k \in {e[1] : e \in entries} |-> (CHOOSE e \in entries : e[1] = k)[2]]

\* bincode::serialize_into(writer, &container): the fields in the order of
\* the struct, the documents in the order of the Vec, each map as its entries.
Serialize(container) ==
    [kind |-> "container", docs_path_hash |-> container.docs_path_hash,
     documents |-> [i \in 1..Len(container.documents) |->
                      <<container.documents[i].path, container.documents[i].title,
                        container.documents[i].description,
                        MapEntries(container.documents[i].term_frequencies)>>],
     idf |-> MapEntries(container.idf)]

\* A reader that leaves the idf map of the container empty.
DeserializeWithoutIdf(bytes) ==
    CacheContainer(bytes.docs_path_hash,
                   [i \in 1..Len(bytes.documents) |->
                      [path |-> bytes.documents[i][1], title |-> bytes.documents[i][2],
                       description |-> bytes.documents[i][3],
                       term_frequencies |-> MapOfEntries(bytes.documents[i][4])]],
                   <<>>)

\* bincode::deserialize_from(reader) of a file serialize_into has written.
Deserialize(bytes) ==
    CacheContainer(bytes.docs_path_hash,
                   [i \in 1..Len(bytes.documents) |->
                      [path |-> bytes.documents[i][1], title |-> bytes.documents[i][2],
                       description |-> bytes.documents[i][3],
                       term_frequencies |-> MapOfEntries(bytes.documents[i][4])]],
                   MapOfEntries(bytes.idf))

\* ------------------------------------------------------------ construction

\* RustBuilderServer::new up to the call of RustDocsSearcher::new, and the
\* first statement of that: paths.docs_path.clone().map(|p| RustDocsSearcher::new(p)).
NewServer(p) ==
    /\ proc[p].pc = "start"
    /\ IF proc[p].docs_path = None
       THEN /\ searcher' = [searcher EXCEPT ![p] = None]
            /\ proc' = [proc EXCEPT ![p].pc = "return"]
       ELSE /\ searcher' = [searcher EXCEPT ![p] = Some(NewSearcher(Unwrap(proc[p].docs_path)))]
            /\ proc' = [proc EXCEPT ![p].pc = "load_from_cache"]
    /\ UNCHANGED <<fs, cache, inbox, reply>>

\* A load that adopts whatever container the file holds, without comparing
\* docs_path_hash.
CacheHitAnyHash(p) == cache.kind = "container"

\* A load that takes a cached index without documents for no cache.
CacheHitNonEmpty(p) ==
    /\ cache.kind = "container"
    /\ cache.docs_path_hash = get_path_hash(Engine(p).docs_path)
    /\ cache.documents # <<>>

\* RustDocsSearcher::load_from_cache, and the test of its result in new:
\* only Ok(true) returns the searcher at once.
CacheHit(p) ==
    /\ cache.kind = "container"
    /\ cache.docs_path_hash = get_path_hash(Engine(p).docs_path)

\* A construction that adopts the cached index and builds all the same.
LoadFromCacheThenBuild(p) ==
    /\ proc[p].pc = "load_from_cache"
    /\ IF CacheHit(p)
       THEN /\ searcher' = [searcher EXCEPT ![p] =
                   Some([Engine(p) EXCEPT
                            !.documents = Deserialize(cache).documents,
                            !.inverse_document_frequency = Deserialize(cache).idf])]
            /\ proc' = [proc EXCEPT ![p].pc = "build_index", ![p].outcome = "cache",
                                    ![p].loaded = Some(cache)]
       ELSE /\ proc' = [proc EXCEPT ![p].pc = "build_index"]
            /\ UNCHANGED searcher
    /\ UNCHANGED <<fs, cache, inbox, reply>>

LoadFromCache(p) ==
    /\ proc[p].pc = "load_from_cache"
    /\ IF CacheHit(p)
       THEN /\ searcher' = [searcher EXCEPT ![p] =
                   Some([Engine(p) EXCEPT
                            !.documents = Deserialize(cache).documents,
                            !.inverse_document_frequency = Deserialize(cache).idf])]
            /\ proc' = [proc EXCEPT ![p].pc = "return", ![p].outcome = "cache",
                                    ![p].loaded = Some(cache)]
       ELSE /\ proc' = [proc EXCEPT ![p].pc = "build_index"]
            /\ UNCHANGED searcher
    /\ UNCHANGED <<fs, cache, inbox, reply>>

\* A construction that goes on to save_to_cache whatever build_index returned.
FindFilesThenSave(p) ==
    /\ proc[p].pc = "build_index"
    /\ LET r == find_html_files(StdOf(fs[Engine(p).docs_path]), <<"std">>, <<>>)
       IN proc' = [proc EXCEPT ![p] =
            IF ~r.ok THEN [@ EXCEPT !.pc = "save_to_cache", !.outcome = "failed"]
            ELSE IF Len(r.files) = 0 THEN [@ EXCEPT !.pc = "save_to_cache", !.outcome = "built"]
            ELSE [@ EXCEPT !.pc = "process", !.all_html_files = r.files,
                           !.total_docs = Len(r.files)]]
    /\ UNCHANGED <<fs, cache, searcher, inbox, reply>>

\* RustDocsSearcher::build_index up to its loop over the files: the walk of
\* docs_path/std, the error it may return, and the early return on no file.
FindFiles(p) ==
    /\ proc[p].pc = "build_index"
    /\ LET r == find_html_files(StdOf(fs[Engine(p).docs_path]), <<"std">>, <<>>)
       IN proc' = [proc EXCEPT ![p] =
            IF ~r.ok THEN [@ EXCEPT !.pc = "return", !.outcome = "failed"]
            ELSE IF Len(r.files) = 0 THEN [@ EXCEPT !.pc = "save_to_cache", !.outcome = "built"]
            ELSE [@ EXCEPT !.pc = "process", !.all_html_files = r.files,
                           !.total_docs = Len(r.files)]]
    /\ UNCHANGED <<fs, cache, searcher, inbox, reply>>

\* A loop that returns the error of process_html_file (and stops on a file
\* without terms) in place of skipping the file.
ProcessFileOrAbort(p) ==
    /\ proc[p].pc = "process"
    /\ proc[p].processed < Len(proc[p].all_html_files)
    /\ LET found == proc[p].all_html_files[proc[p].processed + 1]
           indexed_doc == process_html_file(found)
       IN IF indexed_doc # None
          THEN /\ proc' = [proc EXCEPT ![p].processed = @ + 1,
                                       ![p].doc_counts = CountDoc(@, Unwrap(indexed_doc))]
               /\ searcher' = [searcher EXCEPT ![p] =
                      Some([Engine(p) EXCEPT !.documents = Append(@, Unwrap(indexed_doc))])]
          ELSE /\ proc' = [proc EXCEPT ![p].pc = "return", ![p].outcome = "failed"]
               /\ UNCHANGED searcher
    /\ UNCHANGED <<fs, cache, inbox, reply>>

\* One round of the loop of build_index over all_html_files.
ProcessFile(p) ==
    /\ proc[p].pc = "process"
    /\ proc[p].processed < Len(proc[p].all_html_files)
    /\ LET found == proc[p].all_html_files[proc[p].processed + 1]
           indexed_doc == process_html_file(found)
       IN IF indexed_doc # None
          THEN /\ proc' = [proc EXCEPT ![p].processed = @ + 1,
                                       ![p].doc_counts = CountDoc(@, Unwrap(indexed_doc))]
               /\ searcher' = [searcher EXCEPT ![p] =
                      Some([Engine(p) EXCEPT !.documents = Append(@, Unwrap(indexed_doc))])]
          ELSE /\ proc' = [proc EXCEPT ![p].processed = @ + 1]
               /\ UNCHANGED searcher
    /\ UNCHANGED <<fs, cache, inbox, reply>>

\* An end of build_index that returns an error when a file was skipped,
\* after the documents of the other files have been pushed.
ComputeIdfOrFail(p) ==
    /\ proc[p].pc = "process"
    /\ proc[p].processed = Len(proc[p].all_html_files)
    /\ IF Len(Engine(p).documents) < Len(proc[p].all_html_files)
       THEN /\ proc' = [proc EXCEPT ![p].pc = "return", ![p].outcome = "failed"]
            /\ UNCHANGED searcher
       ELSE /\ searcher' = [searcher EXCEPT ![p] =
                   Some([Engine(p) EXCEPT !.inverse_document_frequency =
                            IdfOfCounts(proc[p].total_docs, proc[p].doc_counts)])]
            /\ proc' = [proc EXCEPT ![p].pc = "save_to_cache", ![p].outcome = "built"]
    /\ UNCHANGED <<fs, cache, inbox, reply>>

\* The end of build_index: the idf of every counted term, and Ok(()).
ComputeIdf(p) ==
    /\ proc[p].pc = "process"
    /\ proc[p].processed = Len(proc[p].all_html_files)
    /\ searcher' = [searcher EXCEPT ![p] =
           Some([Engine(p) EXCEPT !.inverse_document_frequency =
                    IdfOfCounts(proc[p].total_docs, proc[p].doc_counts)])]
    /\ proc' = [proc EXCEPT ![p].pc = "save_to_cache", ![p].outcome = "built"]
    /\ UNCHANGED <<fs, cache, inbox, reply>>

\* What File::create and bincode::serialize_into can do to the cache file:
\* write it, fail before touching it, or fail after truncating it.
SaveOutcomes == {"ok", "create_failed", "write_failed"}

\* let container = CacheContainer { docs_path_hash: self.get_path_hash(),
\*     documents: self.documents.clone(), idf: self.inverse_document_frequency.clone() }
ContainerOf(p) ==
    CacheContainer(get_path_hash(Engine(p).docs_path), Engine(p).documents,
                   Engine(p).inverse_document_frequency)

\* A construction that treats the error of save_to_cache as the error of the
\* build: it gives up the index.
SaveToCacheFatal(p) ==
    /\ proc[p].pc = "save_to_cache"
    /\ \E res \in SaveOutcomes :
          /\ cache' = IF res = "ok" THEN Serialize(ContainerOf(p))
                      ELSE IF res = "write_failed" THEN CacheGarbage
                      ELSE cache
          /\ proc' = [proc EXCEPT ![p].pc = "return", ![p].saves = @ + 1,
                                  ![p].wrote = IF res = "ok" THEN Some(cache') ELSE @,
                                  ![p].outcome = IF res = "ok" THEN @ ELSE "failed"]
          /\ searcher' = [searcher EXCEPT ![p] =
                 IF res = "ok" THEN @ ELSE Some(NewSearcher(Engine(p).docs_path))]
    /\ UNCHANGED <<fs, inbox, reply>>

\* RustDocsSearcher::save_to_cache, whose error new only logs.
SaveToCache(p) ==
    /\ proc[p].pc = "save_to_cache"
    /\ \E res \in SaveOutcomes :
          /\ cache' = IF res = "ok" THEN Serialize(ContainerOf(p))
                      ELSE IF res = "write_failed" THEN CacheGarbage
                      ELSE cache
          /\ proc' = [proc EXCEPT ![p].pc = "return", ![p].saves = @ + 1,
                                  ![p].wrote = IF res = "ok" THEN Some(cache') ELSE @]
    /\ UNCHANGED <<fs, searcher, inbox, reply>>

\* The first buffer BufWriter flushes of a serialized index, and the rest.
HeadOf(bytes) ==
    [docs_path_hash |-> bytes.docs_path_hash, count |-> Len(bytes.documents),
     documents |-> SubSeq(bytes.documents, 1,
                          IF Len(bytes.documents) < HeadDocs THEN Len(bytes.documents)
                          ELSE HeadDocs)]

TailOf(bytes) ==
    [documents |-> SubSeq(bytes.documents, HeadDocs + 1, Len(bytes.documents)),
     idf |-> bytes.idf]

\* A cache file that is no whole serialized index: the buffers it holds at
\* the place of the first one and behind it (None: nothing written there).
Torn(head, tail) == [kind |-> "torn", head |-> head, tail |-> tail]

\* The buffers a cache file holds.
HeadIn(file) ==
    IF file.kind = "container" THEN Some(HeadOf(file))
    ELSE IF file.kind = "torn" THEN file.head ELSE None

TailIn(file) ==
    IF file.kind = "container" THEN Some(TailOf(file))
    ELSE IF file.kind = "torn" THEN file.tail ELSE None

\* The index bincode reads from a first buffer and a rest that fit together.
Join(head, tail) ==
    [kind |-> "container", docs_path_hash |-> head.docs_path_hash,
     documents |-> head.documents \o tail.documents, idf |-> tail.idf]

\* The buffers fit in number: the first announces as many documents as the
\* two hold.
Fits(head, tail) == head.count = Len(head.documents) + Len(tail.documents)

\* The serialized indexes the processes write: buffers of one of them fit
\* together byte by byte.
Streams ==
    {Serialize(ContainerOf(q)) : q \in {r \in Procs : searcher[r] # None}}

\* The files that writing head and tail at their places can leave: a whole
\* index when both are of one stream; when they are of two streams that fit
\* in number, the mixed index or a file that does not deserialize, as the
\* bytes fall; else a file that does not deserialize.
Overlay(head, tail) ==
    IF head = None \/ tail = None THEN {Torn(head, tail)}
    ELSE IF ~Fits(Unwrap(head), Unwrap(tail)) THEN {Torn(head, tail)}
    ELSE IF Join(Unwrap(head), Unwrap(tail)) \in Streams
    THEN {Join(Unwrap(head), Unwrap(tail))}
    ELSE {Join(Unwrap(head), Unwrap(tail)), Torn(head, tail)}

\* save_to_cache step by step, as another process may see it.
\* File::create(cache_path): the file is created or truncated.
SaveCreate(p) ==
    /\ proc[p].pc = "save_to_cache"
    /\ cache' = Torn(None, None)
    /\ proc' = [proc EXCEPT ![p].pc = "save_head", ![p].saves = @ + 1]
    /\ UNCHANGED <<fs, searcher, inbox, reply>>

\* serialize_into: the writer flushes its first buffer at the start of the file.
SaveHead(p) ==
    /\ proc[p].pc = "save_head"
    /\ cache' \in Overlay(Some(HeadOf(Serialize(ContainerOf(p)))), TailIn(cache))
    /\ proc' = [proc EXCEPT ![p].pc = "save_tail"]
    /\ UNCHANGED <<fs, searcher, inbox, reply>>

\* serialize_into: the writer flushes the rest behind the first buffer.
SaveTail(p) ==
    /\ proc[p].pc = "save_tail"
    /\ cache' \in Overlay(HeadIn(cache), Some(TailOf(Serialize(ContainerOf(p)))))
    /\ proc' = [proc EXCEPT ![p].pc = "return",
                            ![p].wrote = Some(Serialize(ContainerOf(p)))]
    /\ UNCHANGED <<fs, searcher, inbox, reply>>

\* The server process ends and a new one starts for the same root.
Restart(p) ==
    /\ proc[p].pc = "serve"
    /\ proc' = [proc EXCEPT ![p] = StartOf(proc[p].docs_path)]
    /\ searcher' = [searcher EXCEPT ![p] = None]
    /\ inbox' = [inbox EXCEPT ![p] = <<>>]
    /\ reply' = [reply EXCEPT ![p] = None]
    /\ UNCHANGED <<fs, cache>>

\* RustDocsSearcher::new and RustBuilderServer::new return, and main starts
\* to serve: server.serve((stdin(), stdout())).
Return(p) ==
    /\ proc[p].pc = "return"
    /\ proc' = [proc EXCEPT ![p].pc = "serve"]
    /\ UNCHANGED <<fs, cache, searcher, inbox, reply>>

\* ---------------------------------------------------------------- requests

\* A server that takes requests as soon as its searcher exists.
ServingWhileBuilding(p) == proc[p].pc = "serve" \/ searcher[p] # None

\* main serves requests only once RustBuilderServer::new has returned.
Serving(p) == proc[p].pc = "serve"

\* A client sends a search_rust_docs request; it waits on the server's
\* input until the server handles it.
IssueQuery(p, query, cap) ==
    /\ proc[p].pc # "off"
    /\ Len(inbox[p]) < cap
    /\ inbox' = [inbox EXCEPT ![p] = Append(@, [query |-> query, sent_pc |-> proc[p].pc])]
    /\ reply' = [reply EXCEPT ![p] = None]
    /\ UNCHANGED <<fs, cache, proc, searcher>>

\* McpError::new(ErrorCode::INTERNAL_ERROR,
\*     "Rust docs not installed. Run: rustup component add rust-docs", None)
NotInstalled == [code |-> "INTERNAL_ERROR", message |-> "Rust docs not installed"]

\* The end of a request whose handler panicked: partial_cmp(..).unwrap() on
\* None in the comparator of search.
Panicked == [code |-> "panic", message |-> "called Option::unwrap() on a None value"]

\* A handler that answers with no result when there is no searcher.
ResponseOrEmpty(p, request) ==
    IF searcher[p] = None
    THEN [query |-> request.query, sent_pc |-> request.sent_pc, is_error |-> FALSE,
          error |-> None, results |-> <<>>, read |-> None]
    ELSE IF SearchPanics(Engine(p).documents, Engine(p).inverse_document_frequency,
                         request.query)
    THEN [query |-> request.query, sent_pc |-> request.sent_pc, is_error |-> TRUE,
          error |-> Some(Panicked), results |-> <<>>,
          read |-> Some([documents |-> Engine(p).documents,
                         idf |-> Engine(p).inverse_document_frequency])]
    ELSE [query |-> request.query, sent_pc |-> request.sent_pc, is_error |-> FALSE,
          error |-> None,
          results |-> Search(Engine(p).documents, Engine(p).inverse_document_frequency,
                             request.query),
          read |-> Some([documents |-> Engine(p).documents,
                         idf |-> Engine(p).inverse_document_frequency])]

\* The response of search_rust_docs: an McpError when there is no searcher,
\* else the results of search, with the index the search read; no result
\* when search panics.
Response(p, request) ==
    IF searcher[p] = None
    THEN [query |-> request.query, sent_pc |-> request.sent_pc, is_error |-> TRUE,
          error |-> Some(NotInstalled), results |-> <<>>, read |-> None]
    ELSE IF SearchPanics(Engine(p).documents, Engine(p).inverse_document_frequency,
                         request.query)
    THEN [query |-> request.query, sent_pc |-> request.sent_pc, is_error |-> TRUE,
          error |-> Some(Panicked), results |-> <<>>,
          read |-> Some([documents |-> Engine(p).documents,
                         idf |-> Engine(p).inverse_document_frequency])]
    ELSE [query |-> request.query, sent_pc |-> request.sent_pc, is_error |-> FALSE,
          error |-> None,
          results |-> Search(Engine(p).documents, Engine(p).inverse_document_frequency,
                             request.query),
          read |-> Some([documents |-> Engine(p).documents,
                         idf |-> Engine(p).inverse_document_frequency])]

\* A search that rebuilds the searcher it is called on.
AfterSearchReset(p) ==
    IF searcher[p] = None THEN searcher
    ELSE [searcher EXCEPT ![p] = Some(NewSearcher(Engine(p).docs_path))]

\* A search that drops from the idf map the terms of the query it has served.
AfterSearchForgets(p) ==
    IF searcher[p] = None \/ inbox[p] = <<>> THEN searcher
    ELSE [searcher EXCEPT ![p] =
            Some([Engine(p) EXCEPT !.inverse_document_frequency =
                    [t \in DOMAIN @ \ TermSet(Tokenize(Head(inbox[p]).query)) |-> @[t]]])]

\* search takes &self: the searcher after a call is the searcher before it.
AfterSearch(p) == searcher

\* RustBuilderServer::search_rust_docs on the oldest waiting request.
HandleSearch(p) ==
    /\ Serving(p)
    /\ inbox[p] # <<>>
    /\ reply' = [reply EXCEPT ![p] = Some(Response(p, Head(inbox[p])))]
    /\ inbox' = [inbox EXCEPT ![p] = Tail(@)]
    /\ searcher' = AfterSearch(p)
    /\ UNCHANGED <<fs, cache, proc>>

\* ------------------------------------------------------------------ inputs

AB == <<"a", "b">>

BA == <<"b", "a">>

\* aa.html: heading "ab", no docblock, body "ab-ba": the terms ab, ab, ba.
FileA ==
    File("aa.html", <<"a", "a">>, Some("html"), TRUE,
         Some(AB), None, Some(<<"a", "b", "-", "b", "a">>))

\* bb.html: no heading (the title is the stem), docblock " ba ": the terms bb, ba.
FileB ==
    File("bb.html", <<"b", "b">>, Some("html"), TRUE,
         None, Some(<<" ", "b", "a", " ">>), None)

\* u.html: a file read_to_string fails on.
FileU ==
    File("u.html", <<"u">>, Some("html"), FALSE, Some(AB), None, Some(BA))

\* a.html: a file with no term (every token is one byte long).
FileE ==
    File("a.html", <<"a">>, Some("html"), TRUE, None, None, Some(<<"-", "B">>))

\* ba.htm: a file whose extension is not html.
FileT ==
    File("ba.htm", BA, Some("htm"), TRUE, Some(BA), None, Some(AB))

\* sub/ab.html: heading " aB ", body "a-b": the term ab.
FileC ==
    File("ab.html", AB, Some("html"), TRUE,
         Some(<<" ", "a", "B", " ">>), None, Some(<<"a", "-", "b">>))

DirSub == Dir("sub", TRUE, <<FileC>>)

\* A directory read_dir fails on.
DirBad == Dir("bad", FALSE, <<FileA>>)

EntryMenu == {FileA, FileB, FileU, FileE, FileT, DirSub, DirBad}

\* The sequences of at most n different elements of S.
Arrangements(S, n) ==
    {s \in UNION {[1..k -> S] : k \in 0..n} : \A i, j \in 1..Len(s) : s[i] = s[j] => i = j}

Corpus(std) == [std |-> std, rest |-> <<>>]

\* A root that holds entries beside std.
CorpusWith(std, rest) == [std |-> std, rest |-> rest]

\* bb.HTML: a file whose extension is html in capitals.
FileX ==
    File("bb.HTML", <<"b", "b">>, Some("HTML"), TRUE, Some(AB), None, Some(AB))

\* Roots with document files beside std: std holds bb.html, bb.HTML and
\* ab.html, the root itself aa.html and sub/ab.html; and a root with aa.html
\* and no std.
BesideStd ==
    {CorpusWith(Some(Dir("std", TRUE, <<FileB, FileX, FileC>>)), <<FileA, DirSub>>),
     CorpusWith(None, <<FileA>>)}

\* Corpora whose std directory holds at most MaxEntries entries of the menu.
GeneratedCorpora ==
    {Corpus(Some(Dir("std", TRUE, es))) : es \in Arrangements(EntryMenu, MaxEntries)}

\* No std under the root; std a file; std unreadable; an entry that fails.
NoStd == Corpus(None)

SpecialCorpora ==
    {NoStd, Corpus(Some(FileA)), Corpus(Some(Dir("std", FALSE, <<FileA>>))),
     Corpus(Some(Dir("std", TRUE, <<FileA, BadEntry, FileB>>)))}

BaseCorpus == Corpus(Some(Dir("std", TRUE, <<FileA, FileB>>)))

\* The names of the documents of a cached index.
DocNames ==
    << "d01", "d02", "d03", "d04", "d05", "d06", "d07", "d08", "d09",
       "d10", "d11", "d12", "d13", "d14", "d15", "d16", "d17", "d18" >>

\* A cache file holds whatever was written to it: term frequencies and idf
\* values of a family indexed by seed, among them zero and negative values,
\* terms without idf and a one-byte term.
Gen(i, m, o) == ((i * m + o) % 4) * 15

CachedTf(i, seed) ==
    LET all == (AB :> Gen(i, seed, 1)) @@ (BA :> Gen(i, seed + 1, seed))
                 @@ (<<"a">> :> Gen(i, 1, 0))
    IN [t \in {u \in DOMAIN all : all[u] # 0} |-> all[t]]

CachedDoc(i, seed) ==
    [path |-> <<"std", DocNames[i]>>, title |-> <<"a">>, description |-> <<>>,
     term_frequencies |-> CachedTf(i, seed)]

CachedIdf(seed) ==
    (AB :> 693)
    @@ (IF seed = 3 THEN <<>> ELSE (BA :> (IF seed % 2 = 1 THEN 405 ELSE 0 - 288)))
    @@ (IF seed >= 4 THEN (<<"a">> :> 1099) ELSE <<>>)

Seeds == 1..6

CachedIndex(docs_path, seed, n) ==
    Serialize(CacheContainer(get_path_hash(docs_path),
                             [i \in 1..n |-> CachedDoc(i, seed)], CachedIdf(seed)))

\* The cache files a process may find at start-up.
CacheMenu ==
    {CacheMissing, CacheUnreadable, CacheGarbage,
     CachedIndex("R1", 1, 2), CachedIndex("R2", 1, 2), CachedIndex("R1", 2, 0)}

\* The query texts: every text of at most MaxQueryLen characters.
QueryChars == {"a", "B", "-"}

Queries == UNION {[1..k -> QueryChars] : k \in 0..MaxQueryLen}

\* The queries sent while a server starts.
LifeQueries == {<<"a", "B">>, <<"b", "a", "-", "a">>, <<"a">>}

\* ------------------------------------------------------------ specification

InitWith(docs_path, cache0, corpus) ==
    /\ fs = [r \in Roots |-> IF r = "R1" THEN corpus ELSE NoStd]
    /\ cache = cache0
    /\ proc = [p \in Procs |-> IF p = "p1" THEN StartOf(docs_path) ELSE Off]
    /\ searcher = [p \in Procs |-> None]
    /\ inbox = [p \in Procs |-> <<>>]
    /\ reply = [p \in Procs |-> None]

\* One server starts: on every generated corpus without a cache file, on every
\* cache file with two corpora, and without a documentation root.
Init ==
    \/ \E corpus \in GeneratedCorpora \cup SpecialCorpora \cup BesideStd :
          InitWith(Some("R1"), CacheMissing, corpus)
    \/ \E cache0 \in CacheMenu, corpus \in {BaseCorpus, NoStd} :
          InitWith(Some("R1"), cache0, corpus)
    \/ \E cache0 \in {CacheMissing, CachedIndex("R1", 1, 2)} :
          InitWith(None, cache0, BaseCorpus)

Next ==
    \E p \in {"p1"} :
        \/ NewServer(p)
        \/ LoadFromCache(p)
        \/ FindFiles(p)
        \/ ProcessFile(p)
        \/ ComputeIdf(p)
        \/ SaveToCache(p)
        \/ Return(p)
        \/ \E query \in LifeQueries : IssueQuery(p, query, MaxInbox)
        \/ HandleSearch(p)

Spec == Init /\ [][Next]_vars

\* A client that sends one query to a server that is serving.
ProbeQuery(p, query) ==
    /\ Serving(p)
    /\ reply[p] = None
    /\ IssueQuery(p, query, 1)

\* One server adopts a cached index of the family and answers one query,
\* for every query text.
InitSearch ==
    \E seed \in Seeds, n \in 0..MaxCachedDocs :
        InitWith(Some("R1"), CachedIndex("R1", seed, n), NoStd)

NextSearch ==
    \E p \in {"p1"} :
        \/ NewServer(p)
        \/ LoadFromCache(p)
        \/ Return(p)
        \/ \E query \in Queries : ProbeQuery(p, query)
        \/ HandleSearch(p)

SpecSearch == InitSearch /\ [][NextSearch]_vars

\* The corpora and queries of two servers that share the cache file.
SharedCorpora ==
    {BaseCorpus, Corpus(Some(Dir("std", TRUE, <<FileU, FileA, DirSub>>)))}

OtherCorpus == Corpus(Some(Dir("std", TRUE, <<FileB, FileC>>)))

SharedQueries == {<<"a", "B">>, <<"b", "a">>}

\* Two servers start on the same machine, on the same root or on two roots:
\* RustPaths::discover gives each its root, and both use the one cache file
\* of temp_dir().
InitShared ==
    \E r1 \in Roots, r2 \in Roots, corpus \in SharedCorpora,
       cache0 \in {CacheMissing, CacheGarbage, CachedIndex("R1", 1, 2)} :
        /\ fs = [r \in Roots |-> IF r = "R1" THEN corpus ELSE OtherCorpus]
        /\ cache = cache0
        /\ proc = [p \in Procs |-> StartOf(Some(IF p = "p1" THEN r1 ELSE r2))]
        /\ searcher = [p \in Procs |-> None]
        /\ inbox = [p \in Procs |-> <<>>]
        /\ reply = [p \in Procs |-> None]

NextShared ==
    \E p \in Procs :
        \/ NewServer(p)
        \/ LoadFromCache(p)
        \/ FindFiles(p)
        \/ ProcessFile(p)
        \/ ComputeIdf(p)
        \/ SaveToCache(p)
        \/ Return(p)
        \/ \E query \in SharedQueries : ProbeQuery(p, query)
        \/ HandleSearch(p)

SpecShared == InitShared /\ [][NextShared]_vars

\* Two servers for two roots, each with two documents of its own, start with
\* no cache file; their saves interleave buffer by buffer, and a server that
\* ends is started again.
RaceCorpus1 == BaseCorpus

RaceCorpus2 == Corpus(Some(Dir("std", TRUE, <<FileC, DirSub>>)))

InitRace ==
    /\ fs = [r \in Roots |-> IF r = "R1" THEN RaceCorpus1 ELSE RaceCorpus2]
    /\ cache = CacheMissing
    /\ proc = [p \in Procs |-> StartOf(Some(IF p = "p1" THEN "R1" ELSE "R2"))]
    /\ searcher = [p \in Procs |-> None]
    /\ inbox = [p \in Procs |-> <<>>]
    /\ reply = [p \in Procs |-> None]

NextRace ==
    \E p \in Procs :
        \/ NewServer(p)
        \/ LoadFromCache(p)
        \/ FindFiles(p)
        \/ ProcessFile(p)
        \/ ComputeIdf(p)
        \/ SaveCreate(p)
        \/ SaveHead(p)
        \/ SaveTail(p)
        \/ Return(p)
        \/ Restart(p)

SpecRace == InitRace /\ [][NextRace]_vars

\* The states of a root over time: no std, std without a document file,
\* std with two documents.
StaleCorpora == {NoStd, Corpus(Some(Dir("std", TRUE, <<FileT>>))), BaseCorpus}

\* The content of a root changes (rust-docs is installed, removed, updated).
ChangeCorpus(root) ==
    /\ \E corpus \in StaleCorpora \ {fs[root]} : fs' = [fs EXCEPT ![root] = corpus]
    /\ UNCHANGED <<cache, proc, searcher, inbox, reply>>

\* Two servers for one root start with no cache file; the content of the
\* root changes at any time, and a server that ends is started again.
InitStale ==
    \E corpus \in StaleCorpora :
        /\ fs = [r \in Roots |-> IF r = "R1" THEN corpus ELSE NoStd]
        /\ cache = CacheMissing
        /\ proc = [p \in Procs |-> StartOf(Some("R1"))]
        /\ searcher = [p \in Procs |-> None]
        /\ inbox = [p \in Procs |-> <<>>]
        /\ reply = [p \in Procs |-> None]

NextStale ==
    \/ ChangeCorpus("R1")
    \/ \E p \in Procs :
        \/ NewServer(p)
        \/ LoadFromCache(p)
        \/ FindFiles(p)
        \/ ProcessFile(p)
        \/ ComputeIdf(p)
        \/ SaveToCache(p)
        \/ Return(p)
        \/ Restart(p)
        \/ \E query \in SharedQueries : ProbeQuery(p, query)
        \/ HandleSearch(p)

SpecStale == InitStale /\ [][NextStale]_vars

\* The values a cache file may hold for a term frequency or an idf: whatever
\* eight bytes were written there.
FloatValues == {NaN, Infinity, NegInfinity, 0 - 45, 0, 30}

FloatDoc(i, tf) ==
    [path |-> <<"std", DocNames[i]>>, title |-> <<"a">>, description |-> <<>>,
     term_frequencies |-> (AB :> tf) @@ (BA :> 30)]

\* A cached index of three documents: the first two hold the term ab with
\* the frequencies tf1 and tf2, the third with a finite one.
FloatIndex(tf1, tf2, idf1, idf2) ==
    Serialize(CacheContainer(get_path_hash("R1"),
                             <<FloatDoc(1, tf1), FloatDoc(2, tf2), FloatDoc(3, 15)>>,
                             (AB :> idf1) @@ (BA :> idf2)))

FloatQueries == {<<"a", "B">>, BA, <<"a", "b", "-", "b", "a">>}

\* One server adopts a cached index with arbitrary stored values and answers
\* one query.
InitFloat ==
    \E tf1 \in FloatValues, tf2 \in FloatValues, idf1 \in FloatValues, idf2 \in FloatValues :
        InitWith(Some("R1"), FloatIndex(tf1, tf2, idf1, idf2), NoStd)

NextFloat ==
    \E p \in {"p1"} :
        \/ NewServer(p)
        \/ LoadFromCache(p)
        \/ Return(p)
        \/ \E query \in FloatQueries : ProbeQuery(p, query)
        \/ HandleSearch(p)

SpecFloat == InitFloat /\ [][NextFloat]_vars

\* ------------------------------------------------------------------ claims

\* The steps of RustDocsSearcher::new that do the build: the cache load, the
\* walk, the extraction and indexing, and the cache save.
BuildPcs == {"load_from_cache", "build_index", "process", "save_to_cache"}

\* The lifecycle of the searcher of p as a caller can tell it: Building until
\* new has returned it, then Ready with its index, or Failed when build_index
\* returned an error.
IndexStateOf(p) ==
    IF searcher[p] = None THEN [state |-> "NoInstance"]
    ELSE IF proc[p].pc # "serve" THEN [state |-> "Building"]
    ELSE IF proc[p].outcome = "failed" THEN [state |-> "Failed"]
    ELSE [state |-> "Ready", documents |-> Engine(p).documents,
          idf |-> Engine(p).inverse_document_frequency]

HasReply(p) == reply[p] # None

Reply(p) == Unwrap(reply[p])

\* A reply that comes from a search (the process has a searcher).
Searched(p) == HasReply(p) /\ ~Reply(p).is_error

\* The index the search of the reply of p read.
ReadDocs(p) == Unwrap(Reply(p).read).documents

ReadIdf(p) == Unwrap(Reply(p).read).idf

\* The result the spec's query engine gives while the index is building.
PlaceholderResult ==
    [title |-> <<"indexing in progress">>, description |-> <<>>, path |-> <<>>,
     relevance_score |-> 0]

\* The result the spec's query engine gives once the build has failed.
FailureResult ==
    [title |-> <<"search unavailable">>, description |-> <<"build failed">>,
     path |-> <<>>, relevance_score |-> 0]

\* C1: construction returns control to the caller before the build has
\* finished; it never waits for the cache load, the walk, the indexing or the
\* cache save.  Stated of the step in which RustDocsSearcher::new returns: no
\* build step has run to its end by then.
C1_ConstructionDoesNotWait ==
    [][\A p \in Procs :
          (searcher[p] # None /\ proc[p].pc = "return" /\ proc'[p].pc = "serve")
              => proc[p].outcome = "none"]_vars

C3_PlaceholderWhileBuilding ==
    \A p \in Procs :
        (Searched(p) /\ Reply(p).sent_pc \in BuildPcs)
            => Reply(p).results = <<PlaceholderResult>>

\* C4: after a fatal build failure every query on the instance returns
\* exactly one synthetic result that embeds the failure message.
C4_FailureSurfaced ==
    \A p \in Procs :
        (Searched(p) /\ proc[p].outcome = "failed")
            => /\ Len(Reply(p).results) = 1
               /\ Reply(p).results[1] = FailureResult

\* The terms of the documents of an index.
TermsOfDocs(documents) ==
    UNION {DOMAIN documents[i].term_frequencies : i \in 1..Len(documents)}

\* C5: no query observes a partially built index: the index a search reads
\* is the final index of the instance, read after the build is over; after a
\* fresh build it holds a document or a skip for every discovered file and an
\* idf value for every term of its documents, and after a failed build it is
\* empty.
C5_NoPartialIndex ==
    \A p \in Procs :
        Searched(p)
            => /\ proc[p].pc \in {"return", "serve"}
               /\ ReadDocs(p) = Engine(p).documents
               /\ ReadIdf(p) = Engine(p).inverse_document_frequency
               /\ proc[p].outcome \in {"cache", "built", "failed"}
               /\ proc[p].outcome = "built"
                      => /\ proc[p].processed = Len(proc[p].all_html_files)
                         /\ TermsOfDocs(ReadDocs(p)) = DOMAIN ReadIdf(p)
               /\ proc[p].outcome = "failed" => ReadDocs(p) = <<>> /\ ReadIdf(p) = <<>>

\* A query answered from a fresh index of two or more documents.
C5_Witness ==
    \E p \in Procs :
        /\ Searched(p)
        /\ proc[p].outcome = "built"
        /\ Len(ReadDocs(p)) >= 2
        /\ Reply(p).sent_pc \in BuildPcs

\* ------------------------------------------------------- claims on search

\* The sum of f over the set S.
RECURSIVE SumOver(_, _)
SumOver(S, f) ==
    IF S = {} THEN 0
    ELSE LET x == CHOOSE y \in S : TRUE IN f[x] + SumOver(S \ {x}, f)

\* The number of places of a sequence that hold x.
Occurrences(x, seq) == Cardinality({i \in 1..Len(seq) : seq[i] = x})

\* tf(doc, term) * idf(term), and 0 when the document or the idf map lacks the term.
Weight(doc, idf, term) ==
    IF term \in DOMAIN doc.term_frequencies /\ term \in DOMAIN idf
    THEN doc.term_frequencies[term] * idf[term]
    ELSE 0

\* The score the spec defines: each query term weighs once per occurrence.
SpecScore(doc, idf, query_terms) ==
    LET ts == {query_terms[i] : i \in 1..Len(query_terms)}
    IN SumOver(ts, [t \in ts |-> Occurrences(t, query_terms) * Weight(doc, idf, t)])

\* The places of the read index whose document a result of the reply names.
PlacesOf(p, k) ==
    {i \in 1..Len(ReadDocs(p)) : ReadDocs(p)[i].path = Reply(p).results[k].path}

\* The places of the read index whose document scores above zero for the query.
Positive(p) ==
    {i \in 1..Len(ReadDocs(p)) :
        SpecScore(ReadDocs(p)[i], ReadIdf(p), Tokenize(Reply(p).query)) > 0}

\* The places of the read index whose document is among the results.
Returned(p) ==
    {i \in 1..Len(ReadDocs(p)) :
        \E k \in 1..Len(Reply(p).results) : Reply(p).results[k].path = ReadDocs(p)[i].path}

\* C6: for a query of at least one term, the score of each returned document
\* is the sum over the token occurrences of the query of tf * idf, a term
\* missing from the document or from the idf map adding 0.
C6_ScoreIsSumOfTfIdf ==
    \A p \in Procs :
        (Searched(p) /\ Tokenize(Reply(p).query) # <<>>)
            => \A k \in 1..Len(Reply(p).results) :
                  /\ PlacesOf(p, k) # {}
                  /\ \A i \in PlacesOf(p, k) :
                        Reply(p).results[k].relevance_score
                            = SpecScore(ReadDocs(p)[i], ReadIdf(p), Tokenize(Reply(p).query))

\* A result for a query that repeats a term.
C6_Witness ==
    \E p \in Procs :
        /\ Searched(p)
        /\ Reply(p).results # <<>>
        /\ \E i, j \in 1..Len(Tokenize(Reply(p).query)) :
              i # j /\ Tokenize(Reply(p).query)[i] = Tokenize(Reply(p).query)[j]
        /\ \E t \in DOMAIN ReadDocs(p)[1].term_frequencies : t \notin DOMAIN ReadIdf(p)

\* C7: every result scores above 0; a document that shares no term with the
\* query is not among the results, and a query none of whose terms occurs in
\* any document returns the empty list.
C7_OnlyPositiveScores ==
    \A p \in Procs :
        Searched(p)
            => LET qs == {Tokenize(Reply(p).query)[i] : i \in 1..Len(Tokenize(Reply(p).query))}
               IN /\ \A k \in 1..Len(Reply(p).results) :
                        Reply(p).results[k].relevance_score > 0
                  /\ \A i \in 1..Len(ReadDocs(p)) :
                        DOMAIN ReadDocs(p)[i].term_frequencies \cap qs = {}
                            => i \notin Returned(p)
                  /\ TermsOfDocs(ReadDocs(p)) \cap qs = {} => Reply(p).results = <<>>

\* A query of one term or more answered with some documents and without others:
\* one that shares no term with it, and one that shares a term and scores 0 or less.
C7_Witness ==
    \E p \in Procs :
        /\ Searched(p)
        /\ Reply(p).results # <<>>
        /\ \E i \in 1..Len(ReadDocs(p)) :
              /\ i \notin Returned(p)
              /\ DOMAIN ReadDocs(p)[i].term_frequencies
                    \cap {Tokenize(Reply(p).query)[j] : j \in 1..Len(Tokenize(Reply(p).query))} = {}
        /\ \E i \in 1..Len(ReadDocs(p)) :
              /\ i \notin Returned(p)
              /\ DOMAIN ReadDocs(p)[i].term_frequencies
                    \cap {Tokenize(Reply(p).query)[j] : j \in 1..Len(Tokenize(Reply(p).query))} # {}

\* C8: the results are in order of non-increasing score.
C8_SortedByScore ==
    \A p \in Procs :
        Searched(p)
            => \A k \in 1..(Len(Reply(p).results) - 1) :
                  Reply(p).results[k].relevance_score
                      >= Reply(p).results[k + 1].relevance_score

\* Results whose index order is not their score order.
C8_Witness ==
    \E p \in Procs :
        /\ Searched(p)
        /\ \E k \in 1..(Len(Reply(p).results) - 1) :
              Reply(p).results[k].relevance_score > Reply(p).results[k + 1].relevance_score
        /\ \E i, j \in Returned(p) :
              /\ i < j
              /\ SpecScore(ReadDocs(p)[i], ReadIdf(p), Tokenize(Reply(p).query))
                    < SpecScore(ReadDocs(p)[j], ReadIdf(p), Tokenize(Reply(p).query))

\* The results are the n best: at most n, and when more than n documents
\* score above 0, n of them, none scoring below a positive document that is
\* left out.
TopOf(p, n) ==
    /\ Len(Reply(p).results) <= n
    /\ Cardinality(Positive(p)) > n
           => /\ Len(Reply(p).results) = n
              /\ Cardinality(Returned(p)) = n
              /\ \A i \in Returned(p), j \in Positive(p) \ Returned(p) :
                    SpecScore(ReadDocs(p)[i], ReadIdf(p), Tokenize(Reply(p).query))
                        >= SpecScore(ReadDocs(p)[j], ReadIdf(p), Tokenize(Reply(p).query))

\* C9 as the spec has it: search returns the top 15 documents.
C9_Top15 == \A p \in Procs : Searched(p) => TopOf(p, 15)

\* C9, amended: search returns the top 10 documents: never more than 10
\* results, and when more than 10 documents score above 0, the 10 that score
\* highest (and every document that scores above 0 when there are 10 or fewer).
C9_TopN ==
    \A p \in Procs :
        Searched(p)
            => /\ TopOf(p, TopN)
               /\ Cardinality(Positive(p)) <= TopN => Returned(p) = Positive(p)

\* A query for which more than TopN documents score above 0, not all alike.
C9_Witness ==
    \E p \in Procs :
        /\ Searched(p)
        /\ Cardinality(Positive(p)) > TopN
        /\ \E i \in Returned(p), j \in Positive(p) \ Returned(p) :
              SpecScore(ReadDocs(p)[i], ReadIdf(p), Tokenize(Reply(p).query))
                  > SpecScore(ReadDocs(p)[j], ReadIdf(p), Tokenize(Reply(p).query))

\* The place in the read index of the document the k-th result names.
PlaceOf(p, k) == CHOOSE i \in PlacesOf(p, k) : TRUE

\* C22: ranking is deterministic with a fixed tie-break: documents of equal
\* score are returned in their indexing order, and when the list is cut, the
\* equal-scoring documents that stay are the ones indexed first; so the same
\* query on the same index always yields the same ordered list.
C22_TiesInIndexOrder ==
    \A p \in Procs :
        Searched(p)
            => /\ \A k \in 1..(Len(Reply(p).results) - 1) :
                     Reply(p).results[k].relevance_score
                             = Reply(p).results[k + 1].relevance_score
                         => PlaceOf(p, k) < PlaceOf(p, k + 1)
               /\ \A i \in Returned(p), j \in Positive(p) \ Returned(p) :
                     SpecScore(ReadDocs(p)[i], ReadIdf(p), Tokenize(Reply(p).query))
                             = SpecScore(ReadDocs(p)[j], ReadIdf(p), Tokenize(Reply(p).query))
                         => i < j

\* A list cut at TopN with two equal-scoring results next to each other and
\* an equal-scoring document left out.
C22_Witness ==
    \E p \in Procs :
        /\ Searched(p)
        /\ Len(Reply(p).results) = TopN
        /\ \E k \in 1..(TopN - 1) :
              Reply(p).results[k].relevance_score = Reply(p).results[k + 1].relevance_score
        /\ \E j \in Positive(p) \ Returned(p) :
              SpecScore(ReadDocs(p)[j], ReadIdf(p), Tokenize(Reply(p).query))
                  = Reply(p).results[TopN].relevance_score

\* A text with no token: no two alphanumeric characters stand side by side
\* (the text is empty, or separators only, or its tokens are one byte long).
NoToken(text) ==
    \A i \in 1..(Len(text) - 1) : ~(IsAlphanumeric(text[i]) /\ IsAlphanumeric(text[i + 1]))

\* C10: a query that tokenizes to zero terms returns the empty list, as a
\* success, whatever the index holds.
C10_NoTermsNoResults ==
    \A p \in Procs :
        (HasReply(p) /\ searcher[p] # None /\ NoToken(Reply(p).query))
            => ~Reply(p).is_error /\ Reply(p).results = <<>>

\* A query of one-byte tokens on an index that holds a one-byte term with
\* tf and idf above 0.
C10_Witness ==
    \E p \in Procs :
        /\ Searched(p)
        /\ NoToken(Reply(p).query)
        /\ \E i \in 1..Len(Reply(p).query) : IsAlphanumeric(Reply(p).query[i])
        /\ \E i \in 1..Len(ReadDocs(p)) :
              Weight(ReadDocs(p)[i], ReadIdf(p), <<ToLowercase(Reply(p).query)[1]>>) > 0

\* ------------------------------------------------------- claims on the build

\* The files of the tree under a node, wherever they are.
RECURSIVE AllFilesUnder(_)
AllFilesUnder(node) ==
    IF node.kind = "file" THEN {node}
    ELSE IF node.kind = "dir"
    THEN UNION {AllFilesUnder(node.entries[i]) : i \in 1..Len(node.entries)}
    ELSE {}

\* Every directory of the tree under a node can be listed to its end.
RECURSIVE Listable(_)
Listable(node) ==
    IF node.kind = "file" THEN TRUE
    ELSE IF node.kind = "dir"
    THEN node.readable /\ \A i \in 1..Len(node.entries) : Listable(node.entries[i])
    ELSE FALSE

\* The corpus root is missing (there is no directory std under it), or the
\* tree under std can be listed and holds no document file.
NoDocumentFiles(corpus) ==
    \/ corpus.std = None
    \/ Unwrap(corpus.std).kind # "dir"
    \/ /\ Listable(Unwrap(corpus.std))
       /\ \A f \in AllFilesUnder(Unwrap(corpus.std)) : f.ext # Some("html")

\* The process has a searcher whose construction missed the cache and is
\* past build_index.
BuildOver(p) ==
    /\ searcher[p] # None
    /\ proc[p].pc \in {"save_to_cache", "return", "serve"}
    /\ proc[p].outcome # "cache"

\* C11: when the corpus root is missing or holds no document file, the build
\* ends successfully with an index of zero documents (it does not fail), and
\* every query to the engine is answered with an empty list, never an error.
C11_EmptyCorpusBuilds ==
    \A p \in Procs :
        (BuildOver(p) /\ NoDocumentFiles(fs[Engine(p).docs_path]))
            => /\ proc[p].outcome = "built"
               /\ Engine(p).documents = <<>>
               /\ DOMAIN Engine(p).inverse_document_frequency = {}
               /\ HasReply(p) => /\ ~Reply(p).is_error
                                 /\ Reply(p).results = <<>>

\* A query with a term answered with no result by an engine whose root has
\* no std directory.
C11_Witness ==
    \E p \in Procs :
        /\ BuildOver(p)
        /\ fs[Engine(p).docs_path].std = None
        /\ proc[p].outcome = "built"
        /\ Searched(p)
        /\ Tokenize(Reply(p).query) # <<>>
        /\ Reply(p).results = <<>>

\* The number of documents of an index that hold the term.
DocumentFrequency(documents, term) ==
    Cardinality({i \in 1..Len(documents) : term \in DOMAIN documents[i].term_frequencies})

\* C12: after a fresh build the idf of every indexed term t is ln(N / df(t)),
\* where N is the number of documents placed in the index (files that were
\* skipped do not count) and df(t) the number of them that hold t; so a term
\* of every document has idf 0 and a term of one document of N has idf ln N.
C12_IdfFromIndexedDocs ==
    \A p \in Procs :
        (BuildOver(p) /\ proc[p].outcome = "built")
            => \A t \in DOMAIN Engine(p).inverse_document_frequency :
                  Engine(p).inverse_document_frequency[t]
                      = Ln(Len(Engine(p).documents),
                           DocumentFrequency(Engine(p).documents, t))

\* The file a document of a fresh index was made of.
FoundAt(p, path) ==
    CHOOSE found \in {proc[p].all_html_files[i] : i \in 1..Len(proc[p].all_html_files)} :
        found.path = path

\* C13: in every indexed document of n tokens, a term that occurs k times has
\* term frequency k / n; the term frequencies of the document sum to 1 and
\* the raw counts to n.
C13_TermFrequencyIsShare ==
    \A p \in Procs :
        (BuildOver(p) /\ proc[p].outcome = "built")
            => \A i \in 1..Len(Engine(p).documents) :
                  LET doc == Engine(p).documents[i]
                      tokens == Tokenize(FullText(FoundAt(p, doc.path).file))
                      n == Len(tokens)
                  IN /\ DOMAIN doc.term_frequencies = {tokens[j] : j \in 1..n}
                     /\ \A t \in DOMAIN doc.term_frequencies :
                           doc.term_frequencies[t] * n = Occurrences(t, tokens) * TfOne
                     /\ SumOver(DOMAIN doc.term_frequencies, doc.term_frequencies) = TfOne
                     /\ SumOver(DOMAIN doc.term_frequencies,
                                [t \in DOMAIN doc.term_frequencies |-> Occurrences(t, tokens)]) = n

\* A fresh index with a document in which a term occurs twice among three.
C13_Witness ==
    \E p \in Procs :
        /\ BuildOver(p)
        /\ proc[p].outcome = "built"
        /\ \E i \in 1..Len(Engine(p).documents) :
              \E t \in DOMAIN Engine(p).documents[i].term_frequencies :
                 /\ Engine(p).documents[i].term_frequencies[t] * 3 = 2 * TfOne
                 /\ Len(Tokenize(FullText(FoundAt(p, Engine(p).documents[i].path).file))) = 3

\* A discovered file process_html_file makes a document of: it can be read
\* and its text has a term.
Usable(found) == found.file.readable /\ Tokenize(FullText(found.file)) # <<>>

\* The walk of the root of p meets no I/O error.
WalkMeetsNoError(p) ==
    LET std == fs[Engine(p).docs_path].std
    IN std # None /\ Unwrap(std).kind = "dir" /\ Listable(Unwrap(std))

IsCacheMiss(p) ==
    \/ cache.kind \in {"missing", "unreadable", "garbage"}
    \/ cache.kind = "container" /\ cache.docs_path_hash # get_path_hash(Engine(p).docs_path)

\* C15: on construction a cache file that is missing, that cannot be read,
\* that fails to deserialize, or whose root fingerprint differs from the
\* engine's is a cache miss: a fresh build follows, with the engine still
\* empty, and construction does not fail.
C15_MissLeadsToBuild ==
    [][\A p \in Procs :
          (proc[p].pc = "load_from_cache" /\ proc'[p].pc # "load_from_cache" /\ IsCacheMiss(p))
              => /\ proc'[p].pc = "build_index"
                 /\ proc'[p].outcome = "none"
                 /\ searcher'[p] = Some(NewSearcher(Unwrap(proc[p].docs_path)))
                 /\ cache' = cache]_vars

\* A server that serves a freshly built index although the cache file held
\* the index of another root when it started (the build could not replace it).
C15_Witness ==
    \E p \in Procs :
        /\ proc[p].pc = "serve"
        /\ proc[p].outcome = "built"
        /\ Engine(p).documents # <<>>
        /\ cache.kind = "container"
        /\ cache.docs_path_hash # get_path_hash(Engine(p).docs_path)

\* The index build_index makes of the files it has discovered.
FreshIndexOf(p) ==
    LET kept == SelectSeq(proc[p].all_html_files, Usable)
        docs == [i \in 1..Len(kept) |-> Unwrap(process_html_file(kept[i]))]
    IN [documents |-> docs,
        idf |-> [t \in TermsOfDocs(docs) |->
                    Ln(proc[p].total_docs, DocumentFrequency(docs, t))]]

\* The save of p is over and has left no serialized index behind.
SaveFailed(p) == proc[p].saves = 1 /\ proc[p].wrote = None

\* Two maps with the same keys and the same values.
SameMap(f, g) == DOMAIN f = DOMAIN g /\ \A k \in DOMAIN f : f[k] = g[k]

\* C16: a failure to write the cache file after a successful fresh build
\* never fails the build: the engine keeps the fresh index and answers every
\* query as it does when the save succeeds, from that index.
C16_SaveFailureKeepsIndex ==
    \A p \in Procs :
        (BuildOver(p) /\ proc[p].saves = 1)
            => LET fresh == FreshIndexOf(p)
               IN /\ proc[p].outcome = "built"
                  /\ Engine(p).documents = fresh.documents
                  /\ SameMap(Engine(p).inverse_document_frequency, fresh.idf)
                  /\ proc[p].pc = "serve" => IndexStateOf(p).state = "Ready"
                  /\ HasReply(p)
                        => /\ ~Reply(p).is_error
                           /\ Reply(p).results
                                 = Search(fresh.documents, fresh.idf, Reply(p).query)

\* A query answered with a result by an engine whose save failed.
C16_Witness ==
    \E p \in Procs :
        /\ BuildOver(p)
        /\ SaveFailed(p)
        /\ cache.kind # "container"
        /\ Searched(p)
        /\ Reply(p).results # <<>>

\* Two indexes with the same documents in the same order and the same idf map.
SameIndex(p, q) ==
    /\ Engine(p).documents = Engine(q).documents
    /\ SameMap(Engine(p).inverse_document_frequency, Engine(q).inverse_document_frequency)

\* The index of p is the one the file content bytes holds, field by field.
HoldsIndexOf(p, bytes) ==
    /\ Len(Engine(p).documents) = Len(bytes.documents)
    /\ \A i \in 1..Len(bytes.documents) :
          /\ Engine(p).documents[i].path = bytes.documents[i][1]
          /\ Engine(p).documents[i].title = bytes.documents[i][2]
          /\ Engine(p).documents[i].description = bytes.documents[i][3]
          /\ \A e \in bytes.documents[i][4] :
                /\ e[1] \in DOMAIN Engine(p).documents[i].term_frequencies
                /\ Engine(p).documents[i].term_frequencies[e[1]] = e[2]
          /\ \A t \in DOMAIN Engine(p).documents[i].term_frequencies :
                <<t, Engine(p).documents[i].term_frequencies[t]>> \in bytes.documents[i][4]
    /\ \A e \in bytes.idf :
          /\ e[1] \in DOMAIN Engine(p).inverse_document_frequency
          /\ Engine(p).inverse_document_frequency[e[1]] = e[2]
    /\ \A t \in DOMAIN Engine(p).inverse_document_frequency :
          <<t, Engine(p).inverse_document_frequency[t]>> \in bytes.idf

\* C17: an engine constructed for a root whose cache file is present and
\* holds the root's fingerprint adopts the cached index without running the
\* walk, the extraction, the tokenization or the indexing, and its index (the
\* documents in order and the idf map) is the cached one, hence the index of
\* the engine that wrote the cache file.
C17_CacheHitAdoptsIndex ==
    /\ [](\A p \in Procs :
            proc[p].outcome = "cache"
                => /\ proc[p].pc \in {"return", "serve"}
                   /\ proc[p].all_html_files = <<>>
                   /\ proc[p].total_docs = 0
                   /\ proc[p].processed = 0
                   /\ DOMAIN proc[p].doc_counts = {}
                   /\ proc[p].saves = 0
                   /\ Unwrap(proc[p].loaded).docs_path_hash
                         = get_path_hash(Engine(p).docs_path)
                   /\ HoldsIndexOf(p, Unwrap(proc[p].loaded))
                   /\ \A q \in Procs :
                         (proc[q].wrote # None /\ proc[q].wrote = proc[p].loaded)
                             => SameIndex(p, q))
    /\ [][\A p \in Procs :
             (/\ proc[p].pc = "load_from_cache"
              /\ proc'[p].pc # "load_from_cache"
              /\ cache.kind = "container"
              /\ cache.docs_path_hash = get_path_hash(Engine(p).docs_path))
                 => /\ proc'[p].outcome = "cache"
                    /\ proc'[p].pc = "return"
                    /\ proc'[p].loaded = Some(cache)
                    /\ cache' = cache]_vars

\* An engine that serves the index another engine built and wrote to the
\* cache file, and has answered a query from it.
C17_Witness ==
    \E p, q \in Procs :
        /\ p # q
        /\ proc[p].outcome = "cache"
        /\ proc[q].outcome = "built"
        /\ proc[q].wrote = proc[p].loaded
        /\ Len(Engine(p).documents) >= 2
        /\ Searched(p)
        /\ Reply(p).results # <<>>

\* C18: the cache round trip: an index that is saved and loaded back for the
\* same root comes back with the same fingerprint, the same documents in the
\* same order and the same idf map, so every probe query is answered with the
\* same results and scores after the round trip as before it.
C18_CacheRoundTrip ==
    \A q \in Procs :
        proc[q].wrote # None
            => LET back == Deserialize(Unwrap(proc[q].wrote))
               IN /\ back.docs_path_hash = get_path_hash(Engine(q).docs_path)
                  /\ back.documents = Engine(q).documents
                  /\ SameMap(back.idf, Engine(q).inverse_document_frequency)
                  /\ \A query \in SharedQueries :
                        Search(back.documents, back.idf, query)
                            = Search(Engine(q).documents,
                                     Engine(q).inverse_document_frequency, query)
                  /\ \A p \in Procs :
                        proc[p].loaded = proc[q].wrote
                            => /\ Engine(p).docs_path = Engine(q).docs_path
                               /\ SameIndex(p, q)
                               /\ (Searched(p) /\ Searched(q) /\ Reply(p).query = Reply(q).query)
                                      => Reply(p).results = Reply(q).results

\* The engine that wrote the cache file and an engine that loaded it have
\* answered the same query with the same results.
C18_Witness ==
    \E p, q \in Procs :
        /\ p # q
        /\ proc[q].wrote # None
        /\ proc[p].loaded = proc[q].wrote
        /\ Searched(p)
        /\ Searched(q)
        /\ Reply(p).query = Reply(q).query
        /\ Len(Reply(q).results) >= 2
        /\ Reply(p).results = Reply(q).results

\* ------------------------------------------------ claims on the calling layer

\* RustPaths::discover found no documentation root for the server p.
NoRoot(p) == proc[p].pc # "off" /\ proc[p].docs_path = None

\* No engine instance exists for p and no step of a build has run.
NoEngineNoBuild(p) ==
    /\ searcher[p] = None
    /\ proc[p].pc \in {"start", "return", "serve"}
    /\ proc[p].outcome = "none"
    /\ proc[p].all_html_files = <<>>
    /\ proc[p].processed = 0
    /\ proc[p].loaded = None
    /\ proc[p].saves = 0

\* C19 as stated: when no corpus root is available at start-up, no engine
\* instance is created and no build is started, and a search request is
\* answered as "feature disabled" and not as an error result.
C19_NoRootNotAnError ==
    \A p \in Procs :
        NoRoot(p)
            => /\ NoEngineNoBuild(p)
               /\ HasReply(p) => ~Reply(p).is_error

\* C19, amended: when no corpus root is available at start-up, no engine
\* instance is created and no build is started, and the calling layer answers
\* a search request itself, without any engine, with the error "Rust docs
\* not installed" (code INTERNAL_ERROR).
C19_NoRootNotInstalled ==
    \A p \in Procs :
        NoRoot(p)
            => /\ NoEngineNoBuild(p)
               /\ HasReply(p) => /\ Reply(p).is_error
                                 /\ Reply(p).error = Some(NotInstalled)
                                 /\ Reply(p).read = None
                                 /\ Reply(p).results = <<>>

\* A server without a root has answered a search request, with a cache file
\* of an index present.
C19_Witness ==
    \E p \in Procs :
        /\ NoRoot(p)
        /\ proc[p].pc = "serve"
        /\ HasReply(p)
        /\ Tokenize(Reply(p).query) # <<>>
        /\ cache.kind = "container"

\* C20: the cache file is written only on the path "cache miss, then a
\* successful fresh build", and at most once by an engine instance; a cache
\* hit and a failed build leave the cache file as it was.
C20_CacheWrittenOncePerBuild ==
    /\ [](\A p \in Procs :
            /\ proc[p].saves <= 1
            /\ proc[p].saves = 1 => proc[p].outcome = "built" /\ proc[p].loaded = None
            /\ proc[p].outcome \in {"cache", "failed"}
                  => proc[p].saves = 0 /\ proc[p].wrote = None)
    /\ [][cache' # cache
             => \E p \in Procs :
                   /\ proc[p].pc = "save_to_cache"
                   /\ proc[p].outcome = "built"
                   /\ proc[p].loaded = None
                   /\ proc[p].saves = 0
                   /\ proc'[p].saves = 1]_vars

\* A server that serves an index it built and wrote to the cache file, which
\* still holds it.
C20_Witness ==
    \E p \in Procs :
        /\ proc[p].pc = "serve"
        /\ proc[p].outcome = "built"
        /\ proc[p].saves = 1
        /\ proc[p].wrote = Some(cache)
        /\ Engine(p).documents # <<>>

\* ------------------------------------------------- claims on the built index

\* C21: once built or loaded the index is immutable: no search call, for any
\* query and in any number or order, changes the documents, the idf map or
\* the root path of the engine, or writes the cache file.
C21_IndexImmutable ==
    [][\A p \in Procs :
          /\ (searcher[p] # None /\ proc[p].pc \in {"return", "serve"})
                => searcher'[p] = searcher[p]
          /\ (Serving(p) /\ inbox[p] # <<>> /\ inbox'[p] = Tail(inbox[p]))
                => /\ searcher' = searcher
                   /\ cache' = cache
                   /\ proc' = proc
                   /\ fs' = fs]_vars

\* An engine that adopted its index from the cache file has answered a query
\* sent while it served, with a result, and holds the index the search read.
C21_Witness ==
    \E p \in Procs :
        /\ proc[p].outcome = "cache"
        /\ Serving(p)
        /\ Searched(p)
        /\ Reply(p).sent_pc = "serve"
        /\ Reply(p).results # <<>>
        /\ ReadDocs(p) = Engine(p).documents
        /\ ReadIdf(p) = Engine(p).inverse_document_frequency

\* C23: after a fresh build the keys of the idf map are exactly the terms of
\* the indexed documents: every term of every indexed document has an idf
\* entry, and a term that no indexed document holds has none.
C23_IdfKeysAreDocTerms ==
    \A p \in Procs :
        (BuildOver(p) /\ proc[p].outcome = "built")
            => /\ \A i \in 1..Len(Engine(p).documents) :
                     \A t \in DOMAIN Engine(p).documents[i].term_frequencies :
                        t \in DOMAIN Engine(p).inverse_document_frequency
               /\ \A t \in DOMAIN Engine(p).inverse_document_frequency :
                     \E i \in 1..Len(Engine(p).documents) :
                        t \in DOMAIN Engine(p).documents[i].term_frequencies

\* A fresh index of two documents or more, with a term of all of them and a
\* term of one only, built from a corpus with a skipped file.
C23_Witness ==
    \E p \in Procs :
        /\ BuildOver(p)
        /\ proc[p].outcome = "built"
        /\ Len(Engine(p).documents) >= 2
        /\ Len(Engine(p).documents) < Len(proc[p].all_html_files)
        /\ \E t, u \in DOMAIN Engine(p).inverse_document_frequency :
              /\ DocumentFrequency(Engine(p).documents, t) = Len(Engine(p).documents)
              /\ DocumentFrequency(Engine(p).documents, u) = 1

\* ---------------------------------------------------- claims on the walk

\* The files a walk reaches from a node at a path when it skips the
\* directories that cannot be read, with their paths.
RECURSIVE Reachable(_, _)
Reachable(node, path) ==
    IF node.kind = "file" THEN {[path |-> path, file |-> node]}
    ELSE IF node.kind = "dir" /\ node.readable
    THEN UNION {Reachable(node.entries[i], Append(path, node.entries[i].name)) :
                    i \in 1..Len(node.entries)}
    ELSE {}

\* No directory iterator of the tree under a node fails on an entry.
RECURSIVE NoBadEntry(_)
NoBadEntry(node) ==
    IF node.kind = "dir" THEN \A i \in 1..Len(node.entries) : NoBadEntry(node.entries[i])
    ELSE node.kind = "file"

\* The tree under a node holds a directory that cannot be read.
RECURSIVE HasUnreadableDir(_)
HasUnreadableDir(node) ==
    /\ node.kind = "dir"
    /\ \/ ~node.readable
       \/ \E i \in 1..Len(node.entries) : HasUnreadableDir(node.entries[i])

\* C24: a directory that cannot be read during the recursive walk is skipped
\* silently: the document files of the other directories are still
\* discovered and indexed, and the build does not fail.
C24_UnreadableDirSkipped ==
    \A p \in Procs :
        (/\ BuildOver(p)
         /\ fs[Engine(p).docs_path].std # None
         /\ Unwrap(fs[Engine(p).docs_path].std).kind = "dir"
         /\ NoBadEntry(Unwrap(fs[Engine(p).docs_path].std))
         /\ HasUnreadableDir(Unwrap(fs[Engine(p).docs_path].std)))
            => /\ proc[p].outcome = "built"
               /\ {Engine(p).documents[i].path : i \in 1..Len(Engine(p).documents)}
                     = {found.path :
                           found \in {f \in Reachable(Unwrap(fs[Engine(p).docs_path].std), <<"std">>) :
                                         f.file.ext = Some("html") /\ Usable(f)}}

\* ------------------------------------------------ claims on the tokenizer

\* The places of a text at which a maximal run of alphanumeric characters starts.
RunStarts(text) ==
    {i \in 1..Len(text) :
        IsAlphanumeric(text[i]) /\ (i = 1 \/ ~IsAlphanumeric(text[i - 1]))}

\* The place at which the run that starts at i ends.
RunEnd(text, i) ==
    CHOOSE j \in i..Len(text) :
        /\ \A k \in i..j : IsAlphanumeric(text[k])
        /\ j = Len(text) \/ ~IsAlphanumeric(text[j + 1])

\* The numbers of a set in ascending order.
RECURSIVE Ascending(_)
Ascending(S) ==
    IF S = {} THEN <<>>
    ELSE LET m == CHOOSE x \in S : \A y \in S : x <= y
         IN <<m>> \o Ascending(S \ {m})

\* The tokens of a text: its maximal alphanumeric runs of more than least
\* characters, lower-cased, in the order of the text, repeated ones kept.
TokensLongerThan(text, least) ==
    LET starts == Ascending({i \in RunStarts(text) : RunEnd(text, i) - i + 1 > least})
    IN [k \in 1..Len(starts) |->
           [j \in 1..(RunEnd(text, starts[k]) - starts[k] + 1) |->
               LowerChar(text[starts[k] + j - 1])]]

\* C25 as stated: the tokenizer lower-cases its input, splits it at every
\* non-alphanumeric character, keeps the tokens in input order with
\* duplicates, and discards every token of length 2 or less.
C25_TokensOfThreeOrMore ==
    \A p \in Procs :
        HasReply(p) => Tokenize(Reply(p).query) = TokensLongerThan(Reply(p).query, 2)

\* C25, amended: as above, but the tokenizer discards only the tokens of one
\* byte (and the empty pieces): tokens of two bytes or more are kept.
C25_TokensOfTwoOrMore ==
    \A p \in Procs :
        HasReply(p) => Tokenize(Reply(p).query) = TokensLongerThan(Reply(p).query, 1)

\* A searched query with an upper-case letter that holds the same token of
\* two bytes twice.
C25_Witness ==
    \E p \in Procs :
        /\ Searched(p)
        /\ \E i \in 1..Len(Reply(p).query) : Reply(p).query[i] = "B"
        /\ \E i, j \in 1..Len(Tokenize(Reply(p).query)) :
              /\ i < j
              /\ Tokenize(Reply(p).query)[i] = Tokenize(Reply(p).query)[j]
              /\ Len(Tokenize(Reply(p).query)[i]) = 2

\* C26: when the fresh build fails, the engine the constructor returns holds
\* an empty index (no document and no idf entry), never a partly built one:
\* the only step that fails, the enumeration of the directories, comes before
\* the first document is inserted; every query on the engine then returns an
\* empty list.
C26_FailedBuildIsEmpty ==
    \A p \in Procs :
        proc[p].outcome = "failed"
            => /\ searcher[p] # None
               /\ Engine(p).documents = <<>>
               /\ DOMAIN Engine(p).inverse_document_frequency = {}
               /\ proc[p].processed = 0
               /\ DOMAIN proc[p].doc_counts = {}
               /\ HasReply(p) => /\ ~Reply(p).is_error
                                 /\ Reply(p).results = <<>>

\* A query with a term answered with no result by an engine whose build
\* failed on a corpus that holds a document with that term.
C26_Witness ==
    \E p \in Procs :
        /\ proc[p].outcome = "failed"
        /\ Serving(p)
        /\ Searched(p)
        /\ Reply(p).results = <<>>
        /\ fs[Engine(p).docs_path].std # None
        /\ \E f \in Reachable(Unwrap(fs[Engine(p).docs_path].std), <<"std">>) :
              /\ f.file.ext = Some("html")
              /\ Usable(f)
              /\ \E i \in 1..Len(Tokenize(Reply(p).query)) :
                    Tokenize(Reply(p).query)[i]
                        \in TermSet(Tokenize(FullText(f.file)))

\* ---------------------------------------------------- claims on the numbers

\* C27: search never panics and never returns an error, for every query and
\* every index content, an index adopted from the cache file with arbitrary
\* stored values (negative, infinite or NaN frequencies or idf) included: the
\* comparator of the sort, which unwraps a partial comparison, only meets
\* scores that passed the filter "strictly greater than 0", and NaN does not.
C27_SearchNeverPanics ==
    \A p \in Procs :
        (HasReply(p) /\ searcher[p] # None)
            => /\ ~Reply(p).is_error
               /\ Reply(p).error = None
               /\ \A k \in 1..Len(Reply(p).results) :
                     /\ ~IsNaN(Reply(p).results[k].relevance_score)
                     /\ Reply(p).results[k].relevance_score > 0

\* A query answered with two results from an index in which another
\* document scores NaN for it.
C27_Witness ==
    \E p \in Procs :
        /\ Searched(p)
        /\ Len(Reply(p).results) >= 2
        /\ \E i \in 1..Len(ReadDocs(p)) :
              IsNaN(Score(ReadDocs(p)[i], ReadIdf(p), Tokenize(Reply(p).query)))
        /\ \E k \in 1..Len(Reply(p).results) :
              Reply(p).results[k].relevance_score = Infinity

\* --------------------------------------------- claims on the shared cache

\* The documents a fresh build of a root makes.
RootDocs(root) ==
    IF fs[root].std = None THEN {}
    ELSE {Unwrap(process_html_file(f)) :
             f \in {g \in Reachable(Unwrap(fs[root].std), <<"std">>) :
                       g.file.ext = Some("html") /\ Usable(g)}}

\* C28: with two engines for different roots constructed concurrently, which
\* share the one cache file (saves and loads interleaved at any granularity),
\* no engine, one constructed later included, ever adopts an index that holds
\* documents built from a root other than its own.
C28_NoForeignDocuments ==
    \A p \in Procs :
        (searcher[p] # None /\ proc[p].outcome = "cache")
            => \A i \in 1..Len(Engine(p).documents) :
                  Engine(p).documents[i] \in RootDocs(Engine(p).docs_path)

\* The steps of a construction that missed the cache.
Building(p) ==
    proc[p].pc \in {"build_index", "process", "save_to_cache"}

\* C29: cache validity depends on the root path alone: once a cache file
\* written for root R exists, every engine constructed later for R adopts it
\* without walking the corpus, whatever has changed under R since. The empty
\* index that a build without document files caches is adopted like any
\* other, so documents added later under the root are not indexed while the
\* cache file remains.
C29_CacheOutlivesCorpus ==
    /\ [](\A p \in Procs :
            (proc[p].outcome = "built" /\ proc[p].total_docs = 0 /\ proc[p].wrote # None)
                => /\ Unwrap(proc[p].wrote).kind = "container"
                   /\ Unwrap(proc[p].wrote).docs_path_hash
                         = get_path_hash(Engine(p).docs_path)
                   /\ Unwrap(proc[p].wrote).documents = <<>>
                   /\ Unwrap(proc[p].wrote).idf = {})
    /\ [][\A p \in Procs :
             (/\ proc[p].pc = "load_from_cache"
              /\ proc'[p].pc # "load_from_cache"
              /\ cache.kind = "container"
              /\ cache.docs_path_hash = get_path_hash(Engine(p).docs_path))
                 => /\ proc'[p].outcome = "cache"
                    /\ proc'[p].pc = "return"
                    /\ proc'[p].all_html_files = <<>>
                    /\ proc'[p].total_docs = 0
                    /\ Unwrap(searcher'[p]).documents = Deserialize(cache).documents
                    /\ Unwrap(searcher'[p]).inverse_document_frequency
                          = Deserialize(cache).idf]_vars
    /\ [][(cache.kind = "container" /\ \A p \in Procs : ~Building(p))
             => cache' = cache]_vars

\* An engine that adopted the empty index cached for its root and answered
\* a query with no result, while the root holds documents the query matches.
C29_Witness ==
    \E p \in Procs :
        /\ proc[p].outcome = "cache"
        /\ Engine(p).documents = <<>>
        /\ Unwrap(proc[p].loaded).documents = <<>>
        /\ fs[Engine(p).docs_path] = BaseCorpus
        /\ Searched(p)
        /\ Reply(p).results = <<>>

\* --------------------------------------------- claims on the scope of a build

\* The files with extension html (in these letters) in the std tree of a
\* root, each with its path, and the files beside std.
HtmlUnderStd(corpus) ==
    IF corpus.std = None THEN {}
    ELSE {f \in Reachable(Unwrap(corpus.std), <<"std">>) : f.file.ext = Some("html")}

BesideStdOf(corpus) ==
    UNION {Reachable(corpus.rest[i], <<corpus.rest[i].name>>) :
              i \in 1..Len(corpus.rest)}

\* C30: a fresh build indexes only files whose extension is exactly html and
\* that lie in the std tree of the root: a document file elsewhere under the
\* root is never discovered, never counted in N and never appears in a result.
C30_OnlyHtmlUnderStd ==
    \A p \in Procs :
        (searcher[p] # None /\ proc[p].outcome # "cache")
            => LET corpus == fs[Engine(p).docs_path]
                   found == {proc[p].all_html_files[i] :
                                i \in 1..Len(proc[p].all_html_files)}
               IN /\ found \subseteq HtmlUnderStd(corpus)
                  /\ proc[p].total_docs \in {0, Cardinality(HtmlUnderStd(corpus))}
                  /\ \A i \in 1..Len(Engine(p).documents) :
                        \E f \in HtmlUnderStd(corpus) :
                            Engine(p).documents[i].path = f.path
                  /\ \A g \in BesideStdOf(corpus) :
                        /\ g \notin found
                        /\ \A i \in 1..Len(Engine(p).documents) :
                              Engine(p).documents[i].path # g.path
                        /\ Searched(p)
                              => \A i \in 1..Len(Reply(p).results) :
                                    Reply(p).results[i].path # g.path

\* A built engine on a root with html files beside std and a file bb.HTML in
\* std: it counted the two html files of std and answered a query with one.
C30_Witness ==
    \E p \in Procs :
        /\ searcher[p] # None
        /\ proc[p].outcome = "built"
        /\ fs[Engine(p).docs_path].std # None
        /\ \E g \in BesideStdOf(fs[Engine(p).docs_path]) : g.file.ext = Some("html")
        /\ \E f \in Reachable(Unwrap(fs[Engine(p).docs_path].std), <<"std">>) :
              f.file.ext = Some("HTML")
        /\ proc[p].total_docs = 2
        /\ Len(Engine(p).documents) = 2
        /\ Searched(p)
        /\ Len(Reply(p).results) = 1

====
